---- MODULE Spec2Model ----
(***************************************************************************)
(* Model of automotive/vehicle/tools/generate_annotation_enums.py:         *)
(* FileParser.parseFile (the line scanner), FileParser.convert /           *)
(* outputAsCsv (the emitters), GeneratedFile (direct / check-only output)  *)
(* and main (argument handling, orchestration, exit status).               *)
(*                                                                         *)
(* Strings are sequences of tokens.  A Python value that may be None is a  *)
(* record [isNone, s].  PropertyConfig objects live in `heap` and are      *)
(* referred to by their index, so that two list positions holding the same *)
(* object are visible as such.                                             *)
(***************************************************************************)
EXTENDS Integers, Sequences, FiniteSets, TLC

\* ------------------------------------------------------------------ bounds
\* Longest source file read, in lines.
MaxLines == 8

\* ------------------------------------------------------- program constants
CM_PREFIX == "VehiclePropertyChangeMode."
ACC_PREFIX == "VehiclePropertyAccess."
SENTINEL == "INVALID"

\* ------------------------------------------------------------ input lines
\* The lines a source file is made of.  `arg` is the \S+ group of an
\* annotation line, the identifier of a value line, the stripped text of a
\* free-text line.
EnumStartLine == [kind |-> "enum_start", arg |-> <<"enum VehicleProperty {">>]
EnumEndLine == [kind |-> "enum_end", arg |-> <<"};">>]
CommentBeginLine == [kind |-> "comment_begin", arg |-> <<>>]
CommentOneLine == [kind |-> "comment_oneline", arg |-> <<"w", "*/">>]
CommentEndLine == [kind |-> "comment_end", arg |-> <<>>]
TextEndLine == [kind |-> "text_end", arg |-> <<"w", "*/">>]
TextLine == [kind |-> "text", arg |-> <<"w">>]
BlankCommentLine == [kind |-> "text", arg |-> <<>>]
ChangeModeLine == [kind |-> "change_mode", arg |-> <<CM_PREFIX, "STATIC">>]
AccessLine == [kind |-> "access", arg |-> <<ACC_PREFIX, "READ">>]
UnitLine == [kind |-> "unit", arg |-> <<"VehicleUnit:METER">>]
DataEnumLine == [kind |-> "data_enum", arg |-> <<"VehicleGear">>]
VersionLine == [kind |-> "version", arg |-> <<"2">>]
Identifiers == {SENTINEL, "A", "B"}
ValueLine(id) == [kind |-> "value", arg |-> <<id>>]

Lines ==
    {EnumStartLine, EnumEndLine, CommentBeginLine, CommentOneLine,
     CommentEndLine, TextEndLine, TextLine, BlankCommentLine,
     ChangeModeLine, AccessLine, UnitLine, DataEnumLine, VersionLine}
    \cup {ValueLine(id) : id \in Identifiers}

\* --------------------------------------------------------- Python values
None == [isNone |-> TRUE, s |-> <<>>]
Str(s) == [isNone |-> FALSE, s |-> s]
\* Python truthiness of an optional string: None and '' are falsy.
Truthy(v) == ~v.isNone /\ v.s # <<>>
\* str.replace(prefix, ''): every occurrence of the prefix is removed.
Replace(s, prefix) == SelectSeq(s, LAMBDA t : t # prefix)
Range(f) == {f[i] : i \in DOMAIN f}

NoError == [type |-> "none", name |-> ""]
Unbound == "<unbound>"

\* ----------------------------------------------------------------- state
VARIABLES
    pc,           \* position of the run
    lineNo,       \* number of lines of the source read so far
    line,         \* the line read last (the loop variable of parseFile)
    processing,   \* parseFile: inside the enum block
    in_comment,   \* parseFile: inside a comment block
    configs,      \* parseFile: list of PropertyConfig references
    config,       \* parseFile: reference of the current PropertyConfig, 0 = None
    heap,         \* the PropertyConfig objects, by reference
    description,  \* parseFile: description accumulator
    prop_name,    \* parseFile: identifier of the last value line, or Unbound
    error,        \* the exception raised, or NoError
    declared,     \* history: identifiers of the non-sentinel value lines processed
    own,          \* history: mandatory annotations read since the last comment
                  \* opener or value line
    region,       \* history: where the free text of the open comment block is
    args,         \* main: the parsed command line
    environ,      \* os.environ['ANDROID_BUILD_TOP'], None when unset
    source,       \* the lines of VehicleProperty.aidl under the build root
    android_top,  \* main: the build root
    files,        \* the file system: path -> content, Absent when there is no file
    files0,       \* history: the file system when the run starts
    temp_files,   \* main: the scratch files created
    outputs,      \* cpp_output_file / java_output_file of each GeneratedFile
    gi,           \* main: index of the loop over generated_files
    written,      \* history: the paths created or opened for writing in this run
    stdout,       \* the messages printed
    self_configs, \* FileParser.configs: None until parseFile returns
    status        \* exit status of the process, Running until it is known

parseVars == <<lineNo, line, processing, in_comment, configs, config, heap,
               description, prop_name, error, declared, own, region>>
mainVars == <<args, environ, source, android_top, files, files0, temp_files, outputs,
              gi, written, stdout, status>>
vars == <<pc, parseVars, self_configs, mainVars>>

\* The locals of parseFile as one value.
Locals ==
    [lineNo |-> lineNo, line |-> line,
     processing |-> processing, in_comment |-> in_comment, configs |-> configs,
     config |-> config, heap |-> heap, description |-> description,
     prop_name |-> prop_name, error |-> error, declared |-> declared, own |-> own,
     region |-> region]

\* Lines 222-225: the locals when parseFile starts.
InitLocals ==
    [lineNo |-> 0, line |-> BlankCommentLine,
     processing |-> FALSE, in_comment |-> FALSE, configs |-> <<>>,
     config |-> 0, heap |-> <<>>, description |-> <<>>,
     prop_name |-> Unbound, error |-> NoError, declared |-> <<>>, own |-> {},
     region |-> "none"]

SetLocals(st) ==
    /\ lineNo' = st.lineNo
    /\ line' = st.line
    /\ processing' = st.processing
    /\ in_comment' = st.in_comment
    /\ configs' = st.configs
    /\ config' = st.config
    /\ heap' = st.heap
    /\ description' = st.description
    /\ prop_name' = st.prop_name
    /\ error' = st.error
    /\ declared' = st.declared
    /\ own' = st.own
    /\ region' = st.region

\* ------------------------------------------------------------ the regexes
\* re.match anchors at the start of the line, so a closer that follows text
\* ("* text */") or an opener ("/** text */") does not match RE_COMMENT_END.
RE_ENUM_START(l) == l.kind = "enum_start"
RE_ENUM_END(l) == l.kind = "enum_end"
RE_COMMENT_BEGIN(l) == l.kind \in {"comment_begin", "comment_oneline"}
RE_COMMENT_END(l) == l.kind = "comment_end"
RE_VALUE(l) == l.kind = "value"
AnnotationKinds == {"change_mode", "access", "unit", "data_enum", "version"}
MandatoryKinds == {"change_mode", "access", "version"}
\* line.strip() with a leading '*' removed and stripped again.  A value line
\* read as comment text is kept as one word, whatever its identifier.
Sline(l) == IF l.kind = "value" THEN <<"identifier = value,">> ELSE l.arg

\* PropertyConfig.__init__
PropertyConfig ==
    [name |-> None, description |-> None, comment |-> None,
     change_mode |-> None, access_modes |-> <<>>, enum_types |-> <<>>,
     unit_type |-> None, version |-> None]

\* The reference a new PropertyConfig() gets.  The object `config` refers to
\* becomes unreachable when it is in no list, so its slot is taken again.
NewRef(st) ==
    IF st.config # 0 /\ st.config \notin Range(st.configs)
    THEN st.config ELSE Len(st.heap) + 1

\* An annotation line consumed inside a comment (the five matches in order).
Annotate(cfg, l) ==
    CASE l.kind = "change_mode" ->
            [cfg EXCEPT !.change_mode = Str(Replace(l.arg, CM_PREFIX))]
      [] l.kind = "access" ->
            [cfg EXCEPT !.access_modes = Append(@, Replace(l.arg, ACC_PREFIX))]
      [] l.kind = "unit" -> [cfg EXCEPT !.unit_type = Str(l.arg)]
      [] l.kind = "data_enum" -> [cfg EXCEPT !.enum_types = Append(@, l.arg)]
      [] l.kind = "version" -> [cfg EXCEPT !.version = Str(l.arg)]

\* The exception of the second @version line: the message is built from
\* prop_name, which is the identifier of the last value line read, and is
\* not yet assigned before the first value line.
DuplicateVersion(name) ==
    IF name = Unbound
    THEN [type |-> "UnboundLocalError", name |-> ""]
    ELSE [type |-> "DuplicateVersion", name |-> name]

\* A free-text line inside a comment: the new (config, description).
FreeText(cfg, desc, sline) ==
    IF ~Truthy(cfg.description)
    THEN IF sline = <<>>
         THEN [cfg |-> [cfg EXCEPT !.description = Str(desc)], desc |-> desc]
         ELSE [cfg |-> cfg,
               desc |-> (IF desc # <<>> THEN desc \o <<" ">> ELSE desc) \o sline]
    ELSE IF ~Truthy(cfg.comment)
         THEN IF sline # <<>>
              THEN [cfg |-> [cfg EXCEPT !.comment = Str(sline)], desc |-> desc]
              ELSE [cfg |-> cfg, desc |-> desc]
         ELSE IF sline # <<>>
              THEN [cfg |-> [cfg EXCEPT !.comment = Str(@.s \o <<" ">> \o sline)],
                    desc |-> desc]
              ELSE [cfg |-> [cfg EXCEPT !.comment = Str(@.s \o <<"\n">>)],
                    desc |-> desc]

\* MissingField without the check of the version.
MissingField_NoVersionCheck(cfg, name) ==
    IF ~Truthy(cfg.change_mode) THEN [type |-> "NoChangeMode", name |-> name]
    ELSE IF cfg.access_modes = <<>> THEN [type |-> "NoAccessMode", name |-> name]
    ELSE NoError

\* The three presence checks of a value line, in order.
MissingField(cfg, name) ==
    IF ~Truthy(cfg.change_mode) THEN [type |-> "NoChangeMode", name |-> name]
    ELSE IF cfg.access_modes = <<>> THEN [type |-> "NoAccessMode", name |-> name]
    ELSE IF ~Truthy(cfg.version) THEN [type |-> "NoVersion", name |-> name]
    ELSE NoError

\* ------------------------------------------------------ FileParser.parseFile
\* Lines 234-238: a comment opener.
CommentBegin(st) ==
    [st EXCEPT !.in_comment = TRUE,
               !.config = NewRef(st),
               !.heap = IF NewRef(st) <= Len(st.heap)
                        THEN [st.heap EXCEPT ![NewRef(st)] = PropertyConfig]
                        ELSE Append(st.heap, PropertyConfig),
               !.description = <<>>,
               !.own = {}]

\* Lines 243-264: an annotation line inside a comment.
AnnotationLine(st, l) ==
    IF l.kind = "version" /\ ~st.heap[st.config].version.isNone
    THEN [st EXCEPT !.error = DuplicateVersion(st.prop_name)]
    ELSE [st EXCEPT !.heap[st.config] = Annotate(@, l),
                    !.own = @ \cup ({l.kind} \cap MandatoryKinds)]

\* Lines 266-290: a free-text line inside a comment.
FreeTextLine(st, l) ==
    LET r == FreeText(st.heap[st.config], st.description, Sline(l)) IN
    [st EXCEPT !.heap[st.config] = r.cfg, !.description = r.desc]

\* Lines 297-307: the value line of a property other than the sentinel.
Finalize(st, id) ==
    IF st.config = 0
    THEN [st EXCEPT !.error = [type |-> "AttributeError", name |-> ""]]
    ELSE IF MissingField(st.heap[st.config], id) # NoError
    THEN [st EXCEPT !.error = MissingField(st.heap[st.config], id)]
    ELSE [st EXCEPT !.heap[st.config].name = Str(<<id>>),
                    !.configs = Append(@, st.config)]

\* ValueDeclaration without the test for the sentinel.
ValueDeclaration_NoSentinel(st, l) ==
    LET id == l.arg[1]
        named == [st EXCEPT !.prop_name = id, !.own = {}]
    IN  Finalize([named EXCEPT !.declared = Append(@, id)], id)

\* Lines 292-307: a value line outside a comment.
ValueDeclaration(st, l) ==
    LET id == l.arg[1]
        named == [st EXCEPT !.prop_name = id, !.own = {}]
    IN  IF id = SENTINEL
        THEN named
        ELSE Finalize([named EXCEPT !.declared = Append(@, id)], id)

\* The free text of a comment block as the source shows it: no block open
\* ("none"), no blank free-text line read yet ("description"), the first
\* blank line read ("finalized"), text read after it ("text"), a blank line
\* after that text ("break"), text after such a blank line ("paragraphs").
\* A value line inside an open block is text of the block.
Region(r, proc, l) ==
    IF ~proc THEN "none"
    ELSE IF l.kind = "comment_begin" THEN "description"
    ELSE IF l.kind \in {"comment_oneline", "comment_end", "text_end"} THEN "none"
    ELSE IF l.kind \in AnnotationKinds \cup {"enum_start"} THEN r
    ELSE IF l = BlankCommentLine
    THEN IF r = "description" THEN "finalized"
         ELSE IF r = "text" THEN "break" ELSE r
    ELSE IF r = "finalized" THEN "text"
         ELSE IF r = "break" THEN "paragraphs" ELSE r

\* One iteration of the loop over f.readlines() (lines 227-307).
ReadLine(st, l) ==
    LET proc == IF RE_ENUM_START(l) THEN TRUE
                ELSE IF RE_ENUM_END(l) THEN FALSE ELSE st.processing
        s1 == [st EXCEPT !.processing = proc, !.line = l, !.lineNo = @ + 1,
                         !.region = Region(@, proc, l)]
        s2 == IF RE_COMMENT_END(l) THEN [s1 EXCEPT !.in_comment = FALSE] ELSE s1
    IN  IF ~proc THEN s1
        ELSE IF RE_COMMENT_BEGIN(l) THEN CommentBegin(s1)
        ELSE IF s2.in_comment
        THEN IF l.kind \in AnnotationKinds
             THEN AnnotationLine(s2, l) ELSE FreeTextLine(s2, l)
        ELSE IF RE_VALUE(l) THEN ValueDeclaration(s2, l)
        ELSE s2

\* parseFile on a whole file: the locals after the last line read.
RECURSIVE ParseFrom(_, _, _)
ParseFrom(st, src, i) ==
    IF i > Len(src) \/ st.error # NoError THEN st
    ELSE ParseFrom(ReadLine(st, src[i]), src, i + 1)

ParseFile(src) == ParseFrom(InitLocals, src, 1)

\* The PropertyConfig objects of self.configs, in list order.
Deref(st) == [i \in 1..Len(st.configs) |-> st.heap[st.configs[i]]]

\* ------------------------------------------------------- FileParser.convert
TAB == "    "
LICENSE == <<"LICENSE", "\n">>
CPP_FOOTER == <<"\n", "};", "CPP_FOOTER", "\n">>
JAVA_FOOTER == <<"\n", ");", "JAVA_FOOTER", "\n">>
CHANGE_MODE_CPP_HEADER == <<"CHANGE_MODE_CPP_HEADER", "\n">>
ACCESS_CPP_HEADER == <<"ACCESS_CPP_HEADER", "\n">>
VERSION_CPP_HEADER == <<"VERSION_CPP_HEADER", "\n">>
CHANGE_MODE_JAVA_HEADER == <<"CHANGE_MODE_JAVA_HEADER", "\n">>
ACCESS_JAVA_HEADER == <<"ACCESS_JAVA_HEADER", "\n">>
ENUM_JAVA_HEADER == <<"ENUM_JAVA_HEADER", "\n">>
UNITS_JAVA_HEADER == <<"UNITS_JAVA_HEADER", "\n">>
Fields == {"change_mode", "access_mode", "enum_types", "unit_type", "version"}

\* ', '.join([class_name + ".class" for class_name in enum_types])
RECURSIVE JoinClasses(_, _)
JoinClasses(types, i) ==
    IF i > Len(types) THEN <<>>
    ELSE (IF i > 1 THEN <<", ">> ELSE <<>>) \o types[i] \o <<".class">>
         \o JoinClasses(types, i + 1)

\* SkipRecord without the `continue` of the enum_types branch.
SkipRecord_EnumNotSkipped(c, field) ==
    field = "unit_type" /\ ~Truthy(c.unit_type)

\* Lines 316-341: the record is skipped (continue).
SkipRecord(c, field) ==
    \/ field = "enum_types" /\ Len(c.enum_types) < 1
    \/ field = "unit_type" /\ ~Truthy(c.unit_type)

\* Lines 316-341: the value of `annotation` after the field dispatch; `prev`
\* is its value before (None when it was never assigned).
Annotation(c, cpp, field, prev) ==
    CASE field = "change_mode" ->
            Str(<<IF cpp THEN "VehiclePropertyChangeMode::"
                  ELSE "VehiclePropertyChangeMode.">> \o c.change_mode.s)
      [] field = "access_mode" ->
            Str(<<IF cpp THEN "VehiclePropertyAccess::"
                  ELSE "VehiclePropertyAccess.">> \o c.access_modes[1])
      [] field = "enum_types" ->
            IF ~cpp THEN Str(<<"List.of(">> \o JoinClasses(c.enum_types, 1) \o <<")">>)
            ELSE prev
      [] field = "unit_type" -> IF ~cpp THEN c.unit_type ELSE prev
      [] field = "version" -> IF cpp THEN c.version ELSE prev
      [] OTHER -> prev

\* Lines 344-349: the rendered line of one record.
RenderLine(c, cpp, ann) ==
    IF cpp
    THEN <<TAB, TAB, "{VehicleProperty::">> \o c.name.s \o <<", ">> \o ann
         \o <<"}", ",">>
    ELSE <<TAB, TAB, "Map.entry(VehicleProperty.">> \o c.name.s \o <<", ">> \o ann
         \o <<")", ",">>

\* Lines 315-350: the loop over self.configs from record i on.
RECURSIVE ConvertLoop(_, _, _, _, _)
ConvertLoop(cfgs, i, acc, cpp, field) ==
    IF i > Len(cfgs) \/ acc.error # NoError THEN acc
    ELSE IF field \notin Fields
    THEN [acc EXCEPT !.error = [type |-> "UnknownField", name |-> ""]]
    ELSE IF SkipRecord(cfgs[i], field)
    THEN ConvertLoop(cfgs, i + 1, acc, cpp, field)
    ELSE LET ann == Annotation(cfgs[i], cpp, field, acc.annotation) IN
         IF ann.isNone
         THEN [acc EXCEPT !.error = [type |-> "UnboundLocalError", name |-> ""]]
         ELSE ConvertLoop(cfgs, i + 1,
                 [acc EXCEPT
                    !.annotation = ann,
                    !.content = @ \o (IF acc.counter # 0 THEN <<"\n">> ELSE <<>>)
                                  \o RenderLine(cfgs[i], cpp, ann.s),
                    !.counter = @ + 1],
                 cpp, field)

\* content[:-1]
DropLast(content) == SubSeq(content, 1, Len(content) - 1)

\* FileParser.convert: the text written to `output`, or the exception.
Convert(cfgs, header, footer, cpp, field) ==
    LET acc == ConvertLoop(cfgs, 1,
                  [content |-> LICENSE \o header, counter |-> 0,
                   annotation |-> None, error |-> NoError], cpp, field)
    IN  IF acc.error # NoError THEN acc
        ELSE [acc EXCEPT !.content =
                 (IF ~cpp THEN DropLast(acc.content) ELSE acc.content) \o footer]

\* --------------------------------------------------- FileParser.outputAsCsv
CSV_HEADER == <<"name,description,change mode,access mode,enum type,unit type,comment", "\n">>
QUOTE == "\""

\* str.replace('"', '""')
EscapeQuotes(s) == [i \in DOMAIN s |-> IF s[i] = QUOTE THEN "\"\"" ELSE s[i]]

\* '/'.join(list)
RECURSIVE JoinSlash(_, _)
JoinSlash(list, i) ==
    IF i > Len(list) THEN <<>>
    ELSE (IF i > 1 THEN <<"/">> ELSE <<>>) \o list[i] \o JoinSlash(list, i + 1)

\* Lines 364-384: the row of one record.
CsvRow(c) ==
    <<QUOTE>> \o c.name.s
    \o <<"\",\"">> \o EscapeQuotes(c.description.s)
    \o <<"\",\"">> \o c.change_mode.s
    \o <<"\",\"">> \o JoinSlash(c.access_modes, 1)
    \o <<"\",\"">> \o (IF c.enum_types = <<>> THEN <<"/">> ELSE JoinSlash(c.enum_types, 1))
    \o <<"\",\"">> \o (IF ~Truthy(c.unit_type) THEN <<"/">> ELSE c.unit_type.s)
    \o <<"\", \"">> \o EscapeQuotes(IF ~Truthy(c.comment) THEN <<>> ELSE c.comment.s)
    \o <<QUOTE, "\n">>

\* Lines 362-384: the text of the CSV file, or the AttributeError of
\* config.description.replace on a description that is None.
RECURSIVE CsvLoop(_, _, _)
CsvLoop(cfgs, i, acc) ==
    IF i > Len(cfgs) \/ acc.error # NoError THEN acc
    ELSE IF cfgs[i].description.isNone
    THEN [acc EXCEPT !.error = [type |-> "AttributeError", name |-> ""]]
    ELSE CsvLoop(cfgs, i + 1, [acc EXCEPT !.content = @ \o CsvRow(cfgs[i])])

OutputAsCsv(cfgs) == CsvLoop(cfgs, 1, [content |-> CSV_HEADER, error |-> NoError])

\* ------------------------------------------------------------ file system
Absent == <<"<absent>">>
NoPath == ""
CHANGE_MODE_CPP_FILE_PATH == "generated_lib/cpp/ChangeModeForVehicleProperty.h"
ACCESS_CPP_FILE_PATH == "generated_lib/cpp/AccessForVehicleProperty.h"
CHANGE_MODE_JAVA_FILE_PATH == "generated_lib/java/ChangeModeForVehicleProperty.java"
ACCESS_JAVA_FILE_PATH == "generated_lib/java/AccessForVehicleProperty.java"
ENUM_JAVA_FILE_PATH == "generated_lib/java/EnumForVehicleProperty.java"
UNITS_JAVA_FILE_PATH == "generated_lib/java/UnitsForVehicleProperty.java"
VERSION_CPP_FILE_PATH == "generated_lib/cpp/VersionForVehicleProperty.h"
ArtifactPaths ==
    {CHANGE_MODE_CPP_FILE_PATH, ACCESS_CPP_FILE_PATH, CHANGE_MODE_JAVA_FILE_PATH,
     ACCESS_JAVA_FILE_PATH, ENUM_JAVA_FILE_PATH, UNITS_JAVA_FILE_PATH,
     VERSION_CPP_FILE_PATH}
CsvPath == "out.csv"
\* The names tempfile.NamedTemporaryFile hands out: one per artifact at most.
TempNames == <<"tmp1", "tmp2", "tmp3", "tmp4", "tmp5", "tmp6", "tmp7">>
Paths == ArtifactPaths \cup {CsvPath} \cup Range(TempNames)

\* Lines 494-530: the five GeneratedFile objects main builds.
GeneratedFiles ==
    << [type |-> "change_mode",
        cpp_file_path |-> CHANGE_MODE_CPP_FILE_PATH,
        java_file_path |-> CHANGE_MODE_JAVA_FILE_PATH,
        cpp_header |-> CHANGE_MODE_CPP_HEADER, cpp_footer |-> CPP_FOOTER,
        java_header |-> CHANGE_MODE_JAVA_HEADER, java_footer |-> JAVA_FOOTER],
       [type |-> "access_mode",
        cpp_file_path |-> ACCESS_CPP_FILE_PATH,
        java_file_path |-> ACCESS_JAVA_FILE_PATH,
        cpp_header |-> ACCESS_CPP_HEADER, cpp_footer |-> CPP_FOOTER,
        java_header |-> ACCESS_JAVA_HEADER, java_footer |-> JAVA_FOOTER],
       [type |-> "enum_types",
        cpp_file_path |-> NoPath,
        java_file_path |-> ENUM_JAVA_FILE_PATH,
        cpp_header |-> <<>>, cpp_footer |-> <<>>,
        java_header |-> ENUM_JAVA_HEADER, java_footer |-> JAVA_FOOTER],
       [type |-> "unit_type",
        cpp_file_path |-> NoPath,
        java_file_path |-> UNITS_JAVA_FILE_PATH,
        cpp_header |-> <<>>, cpp_footer |-> <<>>,
        java_header |-> UNITS_JAVA_HEADER, java_footer |-> JAVA_FOOTER],
       [type |-> "version",
        cpp_file_path |-> VERSION_CPP_FILE_PATH,
        java_file_path |-> NoPath,
        cpp_header |-> VERSION_CPP_HEADER, cpp_footer |-> CPP_FOOTER,
        java_header |-> <<>>, java_footer |-> <<>>] >>

\* GeneratedFile.__init__: cpp_output_file and java_output_file are None.
NoOutputs == [g \in DOMAIN GeneratedFiles |-> [cpp |-> NoPath, java |-> NoPath]]

\* createTempFile: a new, empty file under a name not in use.
CreateTempFile(fs) ==
    LET k == CHOOSE n \in DOMAIN TempNames :
                 /\ fs.files[TempNames[n]] = Absent
                 /\ \A m \in 1..(n - 1) : fs.files[TempNames[m]] # Absent
    IN  [name |-> TempNames[k],
         fs |-> [fs EXCEPT !.files[TempNames[k]] = <<>>,
                           !.written = @ \cup {TempNames[k]}]]

\* _getOutputFile returning the real path also in check mode.
GetOutputFile_AlwaysReal(file_path, check_only, fs) ==
    [output |-> file_path, fs |-> fs]

\* GeneratedFile._getOutputFile: the path to write, and the file system and
\* temp_files after it.
GetOutputFile(file_path, check_only, fs) ==
    IF ~check_only
    THEN [output |-> file_path, fs |-> fs]
    ELSE LET t == CreateTempFile(fs) IN
         [output |-> t.name,
          fs |-> [t.fs EXCEPT !.temp_files = Append(@, t.name)]]

\* Lines 358-359 after lines 313-356: open(output, 'w') and write, or the
\* exception of convert, or the OSError of open (ioFails).
WriteConverted(fs, output, conv, ioFails) ==
    IF conv.error # NoError THEN [fs EXCEPT !.error = conv.error]
    ELSE IF ioFails THEN [fs EXCEPT !.error = [type |-> "OSError", name |-> ""]]
    ELSE [fs EXCEPT !.files[output] = conv.content,
                    !.written = @ \cup {output}]

\* GeneratedFile.convert (lines 427-436) on the file system fs; `fail` names
\* the write that raises OSError, if any.
GeneratedFileConvert(gf, cfgs, check_only, fs, fail) ==
    LET o1 == GetOutputFile(gf.cpp_file_path, check_only, fs)
        w1 == WriteConverted(o1.fs, o1.output,
                 Convert(cfgs, gf.cpp_header, gf.cpp_footer, TRUE, gf.type),
                 fail = "cpp")
        s1 == IF gf.cpp_file_path # NoPath
              THEN IF w1.error # NoError THEN w1
                   ELSE [w1 EXCEPT !.out.cpp = o1.output]
              ELSE fs
        o2 == GetOutputFile(gf.java_file_path, check_only, s1)
        w2 == WriteConverted(o2.fs, o2.output,
                 Convert(cfgs, gf.java_header, gf.java_footer, FALSE, gf.type),
                 fail = "java")
    IN  IF s1.error # NoError \/ gf.java_file_path = NoPath THEN s1
        ELSE IF w2.error # NoError THEN w2
        ELSE [w2 EXCEPT !.out.java = o2.output]

\* filecmp.cmp(a, b): "raise" when one of the files does not exist.
FileCmp(fsFiles, a, b) ==
    IF fsFiles[a] = Absent \/ fsFiles[b] = Absent THEN "raise"
    ELSE IF fsFiles[a] = fsFiles[b] THEN "true" ELSE "false"

\* GeneratedFile.cmp comparing the Java output with the C++ artifact where the
\* generated file has both.
GeneratedFileCmp_AgainstCpp(gf, out, fsFiles) ==
    LET c == FileCmp(fsFiles, out.cpp, gf.cpp_file_path)
        j == FileCmp(fsFiles, out.java,
                 IF gf.cpp_file_path # NoPath THEN gf.cpp_file_path
                 ELSE gf.java_file_path)
    IN  IF gf.cpp_file_path # NoPath /\ c # "true"
        THEN c
        ELSE IF gf.java_file_path # NoPath /\ j # "true"
        THEN j
        ELSE "true"

\* GeneratedFile.cmp (lines 438-447): "true", "false" or "raise".
GeneratedFileCmp(gf, out, fsFiles) ==
    LET c == FileCmp(fsFiles, out.cpp, gf.cpp_file_path)
        j == FileCmp(fsFiles, out.java, gf.java_file_path)
    IN  IF gf.cpp_file_path # NoPath /\ c # "true"
        THEN c
        ELSE IF gf.java_file_path # NoPath /\ j # "true"
        THEN j
        ELSE "true"

\* A cleanup that removes the last scratch file only.
RemoveTempFiles_OnlyLast(fsFiles, temps) ==
    [p \in DOMAIN fsFiles |->
        IF temps # <<>> /\ p = temps[Len(temps)] THEN Absent ELSE fsFiles[p]]

\* Lines 550-552: the finally block removes every file of temp_files.
RemoveTempFiles(fsFiles, temps) ==
    [p \in DOMAIN fsFiles |-> IF p \in Range(temps) THEN Absent ELSE fsFiles[p]]

\* ------------------------------------------------------------------ inputs
\* A source file per shape of enum block.
Mandatory == <<ChangeModeLine, AccessLine, VersionLine>>
Entry(annotations, id) ==
    <<CommentBeginLine>> \o annotations \o <<CommentEndLine, ValueLine(id)>>
Sources ==
    { <<>>,
      <<EnumStartLine, EnumEndLine>>,
      <<EnumStartLine>> \o Entry(<<TextLine, BlankCommentLine>> \o Mandatory, "A")
         \o <<EnumEndLine>>,
      <<EnumStartLine>> \o Entry(<<TextLine>> \o Mandatory, "A") \o <<EnumEndLine>>,
      <<EnumStartLine>> \o Entry(Mandatory, SENTINEL)
         \o Entry(<<TextLine, BlankCommentLine, TextLine, BlankCommentLine, TextLine>>
                  \o Mandatory \o <<AccessLine, UnitLine, DataEnumLine, DataEnumLine>>, "B")
         \o <<EnumEndLine>>,
      <<EnumStartLine>> \o Entry(Mandatory, "A")
         \o Entry(Mandatory \o <<UnitLine>>, "B") \o <<EnumEndLine>>,
      <<EnumStartLine>> \o Entry(Mandatory, "A") \o <<ValueLine("B"), EnumEndLine>>,
      <<EnumStartLine>> \o Entry(<<AccessLine, VersionLine>>, "A") \o <<EnumEndLine>>,
      <<EnumStartLine>> \o Entry(<<ChangeModeLine, VersionLine>>, "A") \o <<EnumEndLine>>,
      <<EnumStartLine>> \o Entry(<<ChangeModeLine, AccessLine>>, "A") \o <<EnumEndLine>>,
      <<EnumStartLine>> \o Entry(Mandatory \o <<VersionLine>>, "A") \o <<EnumEndLine>>,
      <<EnumStartLine>> \o Entry(Mandatory, "A")
         \o Entry(Mandatory \o <<VersionLine>>, "B") \o <<EnumEndLine>>,
      <<EnumStartLine, ValueLine("A"), EnumEndLine>>,
      <<EnumStartLine>> \o Entry(Mandatory \o <<UnitLine>>, "A")
         \o Entry(Mandatory, "B")
         \o Entry(Mandatory \o <<UnitLine, DataEnumLine>>, "C") \o <<EnumEndLine>> }

\* The command lines and environments of a run.
AIDL_FILE == <<"android/hardware/automotive/vehicle/", "VehicleProperty.aidl">>
OTHER_FILE == <<"automotive/vehicle/", "Android.bp">>
NoneList == [isNone |-> TRUE, s |-> <<>>]
List(l) == [isNone |-> FALSE, s |-> l]
Args ==
    [android_build_top : {None, Str(<<"/src">>)},
     preupload_files : {NoneList, List(<<>>), List(<<OTHER_FILE>>),
                        List(<<OTHER_FILE, AIDL_FILE>>)},
     check_only : BOOLEAN,
     output_csv : {None, Str(<<CsvPath>>)}]
Environs == {None, Str(<<>>), Str(<<"/src">>)}

\* str.endswith
EndsWith(str, suffix) == str # <<>> /\ str[Len(str)] = suffix

\* ---------------------------------------------------------------------- main
Running == -1
EmptyFs == [p \in Paths |-> Absent]
FsRecord(f, t, w, o) ==
    [files |-> f, temp_files |-> t, written |-> w, out |-> o, error |-> NoError]

\* The artifacts a direct run leaves for the records cfgs.
RECURSIVE DirectRun(_, _, _)
DirectRun(cfgs, fsFiles, g) ==
    IF g > Len(GeneratedFiles) THEN fsFiles
    ELSE DirectRun(cfgs,
            GeneratedFileConvert(GeneratedFiles[g], cfgs, FALSE,
               FsRecord(fsFiles, <<>>, {}, NoOutputs[g]), "none").files,
            g + 1)

\* The committed artifacts a run starts from: none, or those generated from
\* an earlier version of the source.
CommittedTrees ==
    {EmptyFs} \cup
    {DirectRun(Deref(ParseFile(src)), EmptyFs, 1) :
        src \in {x \in Sources : ParseFile(x).error = NoError}}

\* The records of self.configs.
SelfConfigs == [i \in 1..Len(self_configs.s) |-> heap[self_configs.s[i]]]

\* Lines 469-485: the build root, the preupload filter.
ResolveBuildTop ==
    /\ pc = "main"
    /\ IF Truthy(args.android_build_top)
       THEN /\ android_top' = args.android_build_top
            /\ IF args.preupload_files.isNone
               THEN /\ error' = [type |-> "TypeError", name |-> ""]
                    /\ status' = 1
                    /\ pc' = "done"
               ELSE IF \E k \in DOMAIN args.preupload_files.s :
                          EndsWith(args.preupload_files.s[k], "VehicleProperty.aidl")
               THEN /\ pc' = "call_parse"
                    /\ UNCHANGED <<error, status>>
               ELSE /\ status' = 0
                    /\ pc' = "done"
                    /\ UNCHANGED error
            /\ UNCHANGED stdout
       ELSE IF environ.isNone
       THEN /\ error' = [type |-> "KeyError", name |-> ""]
            /\ status' = 1
            /\ pc' = "done"
            /\ UNCHANGED <<android_top, stdout>>
       ELSE /\ android_top' = environ
            /\ stdout' = IF ~Truthy(environ)
                         THEN stdout \cup {"ANDROID_BUILD_TOP is not in environmental variable"}
                         ELSE stdout
            /\ pc' = "call_parse"
            /\ UNCHANGED <<error, status>>
    /\ UNCHANGED <<lineNo, line, processing, in_comment, configs, config, heap,
                   description, prop_name, declared, own, region, self_configs,
                   args, environ, source, files, files0, temp_files, outputs, gi, written>>

\* CallParseFile with the exception of parseFile swallowed: the run goes on
\* with the records appended before it.
CallParseFile_IgnoresError ==
    /\ pc = "call_parse"
    /\ LET st == ParseFile(source) IN
          /\ SetLocals(st)
          /\ self_configs' = List(st.configs)
          /\ pc' = "parsed"
          /\ UNCHANGED status
    /\ UNCHANGED <<args, environ, source, android_top, files, files0, temp_files,
                   outputs, gi, written, stdout>>

\* Lines 486-488: f.parseFile(aidl_file) on a source file, or on a path that
\* cannot be opened.
CallParseFile ==
    /\ pc = "call_parse"
    /\ \/ LET st == ParseFile(source) IN
             /\ SetLocals(st)
             /\ IF st.error # NoError
                THEN /\ status' = 1
                     /\ pc' = "done"
                     /\ UNCHANGED self_configs
                ELSE /\ self_configs' = List(st.configs)
                     /\ pc' = "parsed"
                     /\ UNCHANGED status
       \/ /\ error' = [type |-> "OSError", name |-> ""]
          /\ status' = 1
          /\ pc' = "done"
          /\ UNCHANGED <<lineNo, line, processing, in_comment, configs, config,
                         heap, description, prop_name, declared, own, region, self_configs>>
    /\ UNCHANGED <<args, environ, source, android_top, files, files0, temp_files,
                   outputs, gi, written, stdout>>

\* Lines 490-492: f.outputAsCsv(args.output_csv); return.
CallOutputAsCsv ==
    /\ pc = "parsed"
    /\ Truthy(args.output_csv)
    /\ LET r == OutputAsCsv(SelfConfigs) IN
       IF r.error # NoError
       THEN /\ error' = r.error
            /\ status' = 1
            /\ UNCHANGED <<files, written>>
       ELSE \E ioFails \in BOOLEAN :
               IF ioFails
               THEN /\ error' = [type |-> "OSError", name |-> ""]
                    /\ status' = 1
                    /\ UNCHANGED <<files, written>>
               ELSE /\ files' = [files EXCEPT ![CsvPath] = r.content]
                    /\ written' = written \cup {CsvPath}
                    /\ status' = 0
                    /\ UNCHANGED error
    /\ pc' = "done"
    /\ UNCHANGED <<lineNo, line, processing, in_comment, configs, config, heap,
                   description, prop_name, declared, own, region, self_configs,
                   args, environ, source, android_top, files0, temp_files, outputs, gi,
                   stdout>>

\* Lines 494-532: generated_files and temp_files are set up.
SetupGeneratedFiles ==
    /\ pc = "parsed"
    /\ ~Truthy(args.output_csv)
    /\ outputs' = NoOutputs
    /\ temp_files' = <<>>
    /\ gi' = 1
    /\ pc' = "convert"
    /\ UNCHANGED <<parseVars, self_configs, args, environ, source, android_top, files,
                   files0, written, stdout, status>>

\* Lines 546-549: except Exception: print, sys.exit(1).
Except(e) ==
    /\ error' = e
    /\ stdout' = stdout \cup {"Error parsing VehicleProperty.aidl"}
    /\ status' = 1
    /\ pc' = "finally"
    /\ UNCHANGED gi

\* Lines 535-539: generated_file.convert(f, args.check_only, temp_files) for
\* one generated file; after the last one, direct mode returns.
ConvertStep ==
    /\ pc = "convert"
    /\ \E fail \in {"none", "cpp", "java"} :
          LET gf == GeneratedFiles[gi]
              r == GeneratedFileConvert(gf, SelfConfigs, args.check_only,
                      FsRecord(files, temp_files, written, outputs[gi]), fail)
          IN  /\ fail = "cpp" => gf.cpp_file_path # NoPath
              /\ fail = "java" => gf.java_file_path # NoPath
              /\ files' = r.files
              /\ temp_files' = r.temp_files
              /\ written' = r.written
              /\ outputs' = [outputs EXCEPT ![gi] = r.out]
              /\ IF r.error # NoError THEN Except(r.error)
                 ELSE IF gi < Len(GeneratedFiles)
                 THEN /\ gi' = gi + 1
                      /\ UNCHANGED <<pc, error, stdout, status>>
                 ELSE IF ~args.check_only
                 THEN /\ status' = 0
                      /\ pc' = "finally"
                      /\ UNCHANGED <<gi, error, stdout>>
                 ELSE /\ gi' = 1
                      /\ pc' = "cmp"
                      /\ UNCHANGED <<error, stdout, status>>
    /\ UNCHANGED <<lineNo, line, processing, in_comment, configs, config, heap,
                   description, prop_name, declared, own, region, self_configs,
                   args, environ, source, android_top, files0>>

\* CmpStep without the sys.exit(1) of a mismatch.
CmpStep_NoExit ==
    /\ pc = "cmp"
    /\ LET c == GeneratedFileCmp(GeneratedFiles[gi], outputs[gi], files) IN
       IF c = "raise" THEN Except([type |-> "OSError", name |-> ""])
       ELSE /\ stdout' = IF c = "false"
                         THEN stdout \cup
                  {"The generated enum files for VehicleProperty.aidl requires update, "}
                         ELSE stdout
            /\ IF gi < Len(GeneratedFiles)
               THEN /\ gi' = gi + 1
                    /\ UNCHANGED <<pc, error, status>>
               ELSE /\ status' = 0
                    /\ pc' = "finally"
                    /\ UNCHANGED <<gi, error>>
    /\ UNCHANGED <<lineNo, line, processing, in_comment, configs, config, heap,
                   description, prop_name, declared, own, region, self_configs,
                   args, environ, source, android_top, files, files0, temp_files, outputs,
                   written>>

\* Lines 541-545: generated_file.cmp() for one generated file.
CmpStep ==
    /\ pc = "cmp"
    /\ LET c == GeneratedFileCmp(GeneratedFiles[gi], outputs[gi], files) IN
       IF c = "raise" THEN Except([type |-> "OSError", name |-> ""])
       ELSE IF c = "false"
       THEN /\ stdout' = stdout \cup
                  {"The generated enum files for VehicleProperty.aidl requires update, "}
            /\ status' = 1
            /\ pc' = "finally"
            /\ UNCHANGED <<gi, error>>
       ELSE IF gi < Len(GeneratedFiles)
       THEN /\ gi' = gi + 1
            /\ UNCHANGED <<pc, error, stdout, status>>
       ELSE /\ status' = 0
            /\ pc' = "finally"
            /\ UNCHANGED <<gi, error, stdout>>
    /\ UNCHANGED <<lineNo, line, processing, in_comment, configs, config, heap,
                   description, prop_name, declared, own, region, self_configs,
                   args, environ, source, android_top, files, files0, temp_files, outputs,
                   written>>

\* Lines 550-552: the finally block, then the process ends.
Finally ==
    /\ pc = "finally"
    /\ files' = RemoveTempFiles(files, temp_files)
    /\ pc' = "done"
    /\ UNCHANGED <<parseVars, self_configs, args, environ, source, android_top, files0,
                   temp_files, outputs, gi, written, stdout, status>>

Init ==
    /\ pc = "main"
    /\ lineNo = InitLocals.lineNo
    /\ line = InitLocals.line
    /\ processing = InitLocals.processing
    /\ in_comment = InitLocals.in_comment
    /\ configs = InitLocals.configs
    /\ config = InitLocals.config
    /\ heap = InitLocals.heap
    /\ description = InitLocals.description
    /\ prop_name = InitLocals.prop_name
    /\ error = InitLocals.error
    /\ declared = InitLocals.declared
    /\ own = InitLocals.own
    /\ region = InitLocals.region
    /\ self_configs = NoneList
    /\ args \in Args
    /\ environ \in Environs
    /\ source \in Sources
    /\ android_top = None
    /\ files \in CommittedTrees
    /\ files0 = files
    /\ temp_files = <<>>
    /\ outputs = NoOutputs
    /\ gi = 0
    /\ written = {}
    /\ stdout = {}
    /\ status = Running

Next ==
    \/ ResolveBuildTop
    \/ CallParseFile
    \/ CallOutputAsCsv
    \/ SetupGeneratedFiles
    \/ ConvertStep
    \/ CmpStep
    \/ Finally

Spec == Init /\ [][Next]_vars

\* ------------------------------------------- a direct run, then a check run
\* The script is started again with --check_only added, on the file system
\* and the source the direct run has left: main starts from line 459 with a
\* new FileParser and no scratch file.
StartCheckRun ==
    /\ pc = "done"
    /\ status = 0
    /\ ~self_configs.isNone
    /\ ~args.check_only
    /\ args' = [args EXCEPT !.check_only = TRUE]
    /\ SetLocals(InitLocals)
    /\ self_configs' = NoneList
    /\ android_top' = None
    /\ files0' = files
    /\ temp_files' = <<>>
    /\ outputs' = NoOutputs
    /\ gi' = 0
    /\ written' = {}
    /\ stdout' = {}
    /\ status' = Running
    /\ pc' = "main"
    /\ UNCHANGED <<environ, source, files>>

\* The first run is a direct run.
InitRerun ==
    /\ Init
    /\ ~args.check_only
    /\ ~Truthy(args.output_csv)

NextRerun ==
    \/ ResolveBuildTop
    \/ CallParseFile
    \/ SetupGeneratedFiles
    \/ ConvertStep
    \/ CmpStep
    \/ Finally
    \/ StartCheckRun

SpecRerun == InitRerun /\ [][NextRerun]_vars

\* -------------------------------------------- parseFile, one line at a time
\* parseFile reads the next line; an exception leaves parseFile.
ParseLine ==
    /\ pc = "parse"
    /\ lineNo < MaxLines
    /\ \E l \in Lines : SetLocals(ReadLine(Locals, l))
    /\ pc' = IF error' # NoError THEN "raised" ELSE "parse"
    /\ UNCHANGED <<self_configs, mainVars>>

\* End of file: self.configs = configs (line 309).
ParseReturn ==
    /\ pc = "parse"
    /\ self_configs' = List(configs)
    /\ pc' = "parsed"
    /\ UNCHANGED <<parseVars, mainVars>>

\* parseFile called on a FileParser() (line 487), on any file of lines.
InitParse ==
    /\ pc = "parse"
    /\ lineNo = InitLocals.lineNo
    /\ line = InitLocals.line
    /\ processing = InitLocals.processing
    /\ in_comment = InitLocals.in_comment
    /\ configs = InitLocals.configs
    /\ config = InitLocals.config
    /\ heap = InitLocals.heap
    /\ description = InitLocals.description
    /\ prop_name = InitLocals.prop_name
    /\ error = InitLocals.error
    /\ declared = InitLocals.declared
    /\ own = InitLocals.own
    /\ region = InitLocals.region
    /\ self_configs = NoneList
    /\ args = [android_build_top |-> None, preupload_files |-> NoneList,
               check_only |-> FALSE, output_csv |-> None]
    /\ environ = Str(<<"/src">>)
    /\ source = <<>>
    /\ android_top = Str(<<"/src">>)
    /\ files = EmptyFs
    /\ files0 = EmptyFs
    /\ temp_files = <<>>
    /\ outputs = NoOutputs
    /\ gi = 0
    /\ written = {}
    /\ stdout = {}
    /\ status = Running

NextParse == ParseLine \/ ParseReturn

SpecParse == InitParse /\ [][NextParse]_vars

\* ===================================================================== claims
\* The records of the list under construction, in list order.
Records == [i \in 1..Len(configs) |-> heap[configs[i]]]
Names(recs) == [i \in 1..Len(recs) |-> recs[i].name.s[1]]
\* The step reads a line of the source.
ReadsLine == pc = "parse" /\ lineNo' = lineNo + 1
\* The step reads a value line that parseFile takes as a declaration.
ReadsDeclaration ==
    /\ ReadsLine
    /\ processing'
    /\ ~in_comment
    /\ line'.kind = "value"

\* C1: in every state of parseFile, each record already appended to the list
\* has a name, a change mode, at least one access mode and a version.
C1_RecordsComplete ==
    \A i \in 1..Len(configs) :
        /\ ~Records[i].name.isNone
        /\ ~Records[i].change_mode.isNone
        /\ Len(Records[i].access_modes) >= 1
        /\ ~Records[i].version.isNone

C1_Witness ==
    /\ pc = "parse"
    /\ Len(configs) >= 1
    /\ line.kind = "value"

\* C2 (as claimed): a declaration of a property other than the sentinel whose
\* own comment omits a mandatory annotation raises the corresponding error,
\* naming it, at that line and appends nothing, wherever the entry stands.
MissingError(seen) ==
    IF "change_mode" \notin seen THEN "NoChangeMode"
    ELSE IF "access" \notin seen THEN "NoAccessMode"
    ELSE "NoVersion"

C2_MissingFieldDetected ==
    [][ (ReadsDeclaration /\ line'.arg[1] # SENTINEL /\ own # MandatoryKinds)
        => /\ error'.type = MissingError(own)
           /\ error'.name = line'.arg[1]
           /\ configs' = configs ]_vars

\* C3 (as claimed): when parseFile returns, the names of the records are the
\* identifiers of the declarations other than the sentinel, in source order.
C3_OrderPreserved ==
    pc = "parsed" => Names(Records) = declared

\* C4 (as claimed): a second @version line in a comment block of the enum
\* block aborts parseFile at that line with the duplicate-version error,
\* nothing being appended, for every entry including the first.
C4_DuplicateVersionDetected ==
    [][ (ReadsLine /\ processing /\ in_comment /\ line'.kind = "version"
         /\ ~heap[config].version.isNone)
        => /\ error'.type = "DuplicateVersion"
           /\ pc' = "raised"
           /\ configs' = configs ]_vars

\* C5 (as claimed): each of the four fatal parse errors carries the name of
\* the offending entry: a missing-annotation error the identifier of the
\* declaration being read, the duplicate-version error a name, and not the
\* name of a declaration read before the comment block.
C5_ErrorNamesEntry ==
    /\ error.type \in {"NoChangeMode", "NoAccessMode", "NoVersion"}
          => error.name = line.arg[1]
    /\ (pc = "raised" /\ line.kind = "version")
          => /\ error.type = "DuplicateVersion"
             /\ error.name \notin Range(declared) \cup {SENTINEL}

\* C6: a declaration of the sentinel INVALID leaves the record list and its
\* records as they are and raises no error, whatever precedes it, and no
\* record is ever named INVALID.
C6_SentinelSkipped ==
    /\ [][ (ReadsLine /\ processing' /\ line' = ValueLine(SENTINEL))
           => /\ configs' = configs
              /\ Records' = Records
              /\ error' = NoError ]_vars
    /\ [](\A i \in 1..Len(configs) : Records[i].name # Str(<<SENTINEL>>))

C6_Witness ==
    /\ pc = "parse"
    /\ processing
    /\ ~in_comment
    /\ line = ValueLine(SENTINEL)
    /\ prop_name = SENTINEL
    /\ config # 0
    /\ MissingField(heap[config], SENTINEL) = NoError
    /\ configs = <<>>

\* -------------------------------------------------------- claims about main
\* parseFile raised: one of its four errors, or the failure of a use of an
\* unassigned local or of None, before self.configs was assigned.
ParseRaised ==
    \/ error.type \in {"NoChangeMode", "NoAccessMode", "NoVersion", "DuplicateVersion"}
    \/ /\ self_configs.isNone
       /\ error.type \in {"UnboundLocalError", "AttributeError"}
NothingWritten == written = {} /\ files = files0
Skipped ==
    /\ Truthy(args.android_build_top)
    /\ ~args.preupload_files.isNone
    /\ \A k \in DOMAIN args.preupload_files.s :
          ~EndsWith(args.preupload_files.s[k], "VehicleProperty.aidl")
DirectMode == ~args.check_only /\ ~Truthy(args.output_csv)
CheckMode == args.check_only /\ ~Truthy(args.output_csv)
\* An artifact differs from what the records of this run generate.
Drift ==
    \E p \in ArtifactPaths :
        files[p] # Absent /\ files[p] # DirectRun(SelfConfigs, EmptyFs, 1)[p]
IoFailed == error.type = "OSError"

\* C7: in a run in which parseFile raises, no artifact, CSV file or scratch
\* file is created or written; whatever is written is written after
\* parseFile has returned.
C7_FailFast ==
    /\ ParseRaised => NothingWritten
    /\ ~NothingWritten => ~self_configs.isNone

C7_Witness ==
    /\ pc = "done"
    /\ error.type = "NoVersion"
    /\ ~args.check_only
    /\ ~Truthy(args.output_csv)
    /\ files0 # EmptyFs

\* C8 (as claimed): the run ends with status 0 when skipped or successful,
\* with status 1 when parseFile raises or check mode finds an artifact that
\* differs; in direct mode, parseFile having returned, the status is 0.
C8_ExitStatus ==
    pc = "done" =>
        /\ Skipped => status = 0
        /\ ParseRaised => status = 1
        /\ (CheckMode /\ ~self_configs.isNone /\ Drift) => status = 1
        /\ (CheckMode /\ ~self_configs.isNone /\ ~Drift /\ ~IoFailed) => status = 0
        /\ (DirectMode /\ ~self_configs.isNone) => status = 0

\* C8 (amended): as C8, the status of direct mode being 0 when parseFile has
\* returned and no write of an artifact has raised an I/O error.
C8_ExitStatusAmended ==
    pc = "done" =>
        /\ Skipped => status = 0
        /\ ParseRaised => status = 1
        /\ (CheckMode /\ ~self_configs.isNone /\ Drift) => status = 1
        /\ (CheckMode /\ ~self_configs.isNone /\ ~Drift /\ ~IoFailed) => status = 0
        /\ (DirectMode /\ ~self_configs.isNone /\ ~IoFailed) => status = 0

C8_Witness ==
    /\ pc = "done"
    /\ CheckMode
    /\ Len(temp_files) = Cardinality(ArtifactPaths)
    /\ ~IoFailed
    /\ Drift
    /\ status = 1

\* C9: in check mode no artifact path is written: every artifact keeps the
\* content it had when the run started, and every write of an emitter goes
\* to a scratch file created in the run.
C9_CheckModeWritesScratchOnly ==
    args.check_only =>
        /\ \A p \in ArtifactPaths : files[p] = files0[p]
        /\ written \cap ArtifactPaths = {}
        /\ (written \ {CsvPath}) \subseteq Range(temp_files)

C9_Witness ==
    /\ pc = "done"
    /\ CheckMode
    /\ Len(temp_files) = Cardinality(ArtifactPaths)
    /\ written = Range(temp_files)
    /\ Len(self_configs.s) >= 1
    /\ status = 0

\* C10: when a check-mode run has ended, however the emit/compare sequence
\* ended, every scratch file created in the run has been removed.
C10_ScratchRemoved ==
    (pc = "done" /\ args.check_only) =>
        \A t \in Range(TempNames) : files[t] = Absent

C10_Witness ==
    /\ pc = "done"
    /\ CheckMode
    /\ Len(temp_files) >= 2
    /\ IoFailed
    /\ status = 1

\* C11: in a check run that follows a direct run of status 0 on the same
\* source, no comparison of an artifact fails or raises, no drift is
\* reported, and the run ends with status 0 unless a write of a scratch
\* file raises an I/O error.
DriftMessage ==
    "The generated enum files for VehicleProperty.aidl requires update, "
C11_RerunNoDrift ==
    args.check_only =>
        /\ DriftMessage \notin stdout
        /\ pc = "cmp" =>
              GeneratedFileCmp(GeneratedFiles[gi], outputs[gi], files) = "true"
        /\ (pc = "done" /\ ~IoFailed) => status = 0

C11_Witness ==
    /\ pc = "done"
    /\ args.check_only
    /\ Len(self_configs.s) >= 2
    /\ Len(temp_files) = Cardinality(ArtifactPaths)
    /\ written = Range(temp_files)
    /\ files0 # EmptyFs
    /\ status = 0

\* C12 (as claimed): whenever a build root is given, by --android_build_top
\* or by ANDROID_BUILD_TOP, and the list of --preupload_files does not
\* contain VehicleProperty.aidl, the run is skipped: parseFile is not
\* called, nothing is written and the run ends with status 0.
BuildRootGiven == Truthy(args.android_build_top) \/ Truthy(environ)
ListLacksSource ==
    /\ ~args.preupload_files.isNone
    /\ \A k \in DOMAIN args.preupload_files.s :
          ~EndsWith(args.preupload_files.s[k], "VehicleProperty.aidl")
C12_SkipRule ==
    (BuildRootGiven /\ ListLacksSource) =>
        /\ pc \in {"main", "done"}
        /\ lineNo = 0
        /\ self_configs.isNone
        /\ NothingWritten
        /\ pc = "done" => status = 0

\* C13 (as claimed): when neither --android_build_top nor ANDROID_BUILD_TOP
\* gives a non-empty build root (the variable unset or empty), the run ends
\* with status 1 before parseFile is called and before any file is opened.
NoBuildRoot == ~Truthy(args.android_build_top) /\ ~Truthy(environ)
C13_MissingBuildRootFatal ==
    NoBuildRoot =>
        /\ pc \in {"main", "done"}
        /\ lineNo = 0
        /\ self_configs.isNone
        /\ NothingWritten
        /\ pc = "done" => (status = 1 /\ error.type = "KeyError")

\* C14 (as claimed): every record parseFile returns has a description that
\* is a string, never None, whatever the layout of its comment, and so
\* outputAsCsv on the records of a successful parse raises no error on a
\* record.
C14_DescriptionNeverNone ==
    ~self_configs.isNone =>
        /\ \A i \in 1..Len(self_configs.s) : ~SelfConfigs[i].description.isNone
        /\ (Truthy(args.output_csv) /\ pc = "done") => error.type # "AttributeError"

\* C15 (as claimed): in a run with --output_csv, with or without
\* --check_only, no artifact and no scratch file is created, written or
\* compared, and when parseFile has returned and no open has raised an I/O
\* error the run ends having written the CSV file and nothing else.
C15_CsvTerminal ==
    Truthy(args.output_csv) =>
        /\ pc \notin {"convert", "cmp", "finally"}
        /\ temp_files = <<>>
        /\ written \subseteq {CsvPath}
        /\ \A p \in Paths \ {CsvPath} : files[p] = files0[p]
        /\ (pc = "done" /\ ~self_configs.isNone /\ ~IoFailed)
              => (written = {CsvPath} /\ status = 0)

\* C16 (as claimed): in a comment block where, after the first blank
\* free-text line, a blank line stands between two non-blank free-text
\* lines, the comment of the record holds a newline marker.
C16_CommentKeepsParagraphs ==
    region = "paragraphs" =>
        /\ ~heap[config].comment.isNone
        /\ "\n" \in Range(heap[config].comment.s)

\* C17 (as claimed): a record appended to the list is not changed by any
\* line read later, in no field, its name included, and it keeps its
\* position; the positions of the list hold pairwise distinct records.
C17_AppendedRecordsFrozen ==
    [][ ReadsLine =>
          /\ \A i \in 1..Len(configs) :
                 /\ Len(configs') >= i
                 /\ configs'[i] = configs[i]
                 /\ heap'[configs[i]] = heap[configs[i]]
          /\ \A i, j \in 1..Len(configs') : i # j => configs'[i] # configs'[j] ]_vars

\* C18 (as claimed): in the enum block a line that closes a comment, alone
\* on its line, after text or on the line of the opener, leaves in_comment
\* false; and a value line read when no comment block is open is taken as
\* a declaration, not as text of a comment.
ClosesComment(l) == l.kind \in {"comment_end", "text_end", "comment_oneline"}
C18_CloserClearsFlag ==
    [][ /\ (ReadsLine /\ processing' /\ ClosesComment(line')) => ~in_comment'
        /\ (ReadsLine /\ processing' /\ line'.kind = "value" /\ region = "none")
              => /\ description' = description
                 /\ line'.arg[1] # SENTINEL => declared' = Append(declared, line'.arg[1])
      ]_vars

\* C19 (as claimed): in a comment block the first blank free-text line sets
\* the description of the record to the text accumulated so far, the empty
\* string when there is none; a free-text line read after that blank line
\* leaves the description as it is and, when it is not blank, is appended
\* to the comment.
AfterFirstBlank == region \in {"finalized", "text", "break", "paragraphs"}
C19_FirstBlankFinalizes ==
    [][ (ReadsLine /\ processing' /\ line'.kind = "text") =>
          /\ (region = "description" /\ line' = BlankCommentLine)
                => heap'[config].description = Str(description)
          /\ AfterFirstBlank
                => /\ heap'[config].description = heap[config].description
                   /\ line' # BlankCommentLine
                         => heap'[config].comment =
                              Str((IF heap[config].comment.isNone THEN <<>>
                                   ELSE heap[config].comment.s \o <<" ">>)
                                  \o line'.arg) ]_vars

\* C20 (as claimed): the text convert writes is the license, the whole
\* header, the rendered lines and the whole footer; in Java style the lines
\* lose the separator after the last line and nothing else is dropped, also
\* when no record renders a line.
RenderedLines(cfgs, cpp, field) ==
    ConvertLoop(cfgs, 1, [content |-> <<>>, counter |-> 0, annotation |-> None,
                          error |-> NoError], cpp, field).content
ExpectedText(cfgs, header, footer, cpp, field) ==
    LET lines == RenderedLines(cfgs, cpp, field) IN
    LICENSE \o header
       \o (IF ~cpp /\ lines # <<>> THEN DropLast(lines) ELSE lines)
       \o footer
C20_ConvertComposition ==
    \A g \in DOMAIN GeneratedFiles :
        LET gf == GeneratedFiles[g] IN
        /\ (outputs[g].cpp # NoPath /\ files[outputs[g].cpp] # Absent)
              => files[outputs[g].cpp] =
                    ExpectedText(SelfConfigs, gf.cpp_header, gf.cpp_footer, TRUE, gf.type)
        /\ (outputs[g].java # NoPath /\ files[outputs[g].java] # Absent)
              => files[outputs[g].java] =
                    ExpectedText(SelfConfigs, gf.java_header, gf.java_footer, FALSE, gf.type)

\* C21: in every file convert has written, the lines between header and
\* footer are the rendered lines of the records that have the field (every
\* record for change_mode, access_mode and version), one line per such
\* record, in record order, separated by exactly one line break; a record
\* without the field leaves no line and no separator.
Qualifies(c, field) ==
    CASE field = "enum_types" -> c.enum_types # <<>>
      [] field = "unit_type" -> ~c.unit_type.isNone
      [] OTHER -> TRUE
Qualifying(cfgs, field) == SelectSeq(cfgs, LAMBDA c : Qualifies(c, field))
\* The text between the license and header and the footer.
Body(text, header, footer) ==
    SubSeq(text, Len(LICENSE) + Len(header) + 1, Len(text) - Len(footer))
RECURSIVE SplitFrom(_, _, _)
SplitFrom(s, i, cur) ==
    IF i > Len(s) THEN <<cur>>
    ELSE IF s[i] = "\n" THEN <<cur>> \o SplitFrom(s, i + 1, <<>>)
    ELSE SplitFrom(s, i + 1, Append(cur, s[i]))
\* The lines of a text: the pieces between its line breaks.
SplitLines(s) == IF s = <<>> THEN <<>> ELSE SplitFrom(s, 1, <<>>)
\* The line of one record, as it stands in the file.
LineOf(c, cpp, field, last) ==
    LET l == RenderLine(c, cpp, Annotation(c, cpp, field, None).s) IN
    IF ~cpp /\ last THEN DropLast(l) ELSE l
LinesAsRendered(text, header, footer, cpp, field) ==
    LET ls == SplitLines(Body(text, header, footer))
        q == Qualifying(SelfConfigs, field)
    IN  /\ Len(ls) = Len(q)
        /\ \A i \in 1..Len(ls) : ls[i] = LineOf(q[i], cpp, field, i = Len(q))
C21_PerRecordRendering ==
    \A g \in DOMAIN GeneratedFiles :
        LET gf == GeneratedFiles[g] IN
        /\ (outputs[g].cpp # NoPath /\ files[outputs[g].cpp] # Absent)
              => LinesAsRendered(files[outputs[g].cpp], gf.cpp_header,
                                 gf.cpp_footer, TRUE, gf.type)
        /\ (outputs[g].java # NoPath /\ files[outputs[g].java] # Absent)
              => LinesAsRendered(files[outputs[g].java], gf.java_header,
                                 gf.java_footer, FALSE, gf.type)

C21_Witness ==
    /\ pc = "done"
    /\ DirectMode
    /\ status = 0
    /\ Len(SelfConfigs) = 3
    /\ ~Qualifies(SelfConfigs[2], "unit_type")
    /\ Len(Qualifying(SelfConfigs, "unit_type")) = 2
    /\ Len(Qualifying(SelfConfigs, "enum_types")) = 1
    /\ UNITS_JAVA_FILE_PATH \in written

====
